---- MODULE Spec2Model ----
(***************************************************************************)
(* A model of ppe_diag's configuration base class                          *)
(* (ppe_diag/scripts/utils/base_config.py) and of the colormap lookup of   *)
(* ppe_diag/plotting/utils/plot_style.py.                                  *)
(*                                                                         *)
(* A Python str is a sequence of one-character strings, so that the        *)
(* string operations of the code (replace, ljust, int(), Path(), repr,     *)
(* f-strings, join) are computed and not assumed.  TLA+ strings are used   *)
(* only for tags: the type of a value, the kind of an outcome, the name of *)
(* an exception class.                                                     *)
(***************************************************************************)
EXTENDS Integers, Sequences, FiniteSets, TLC

VARIABLES
    fs,        \* the file system below the working directory: path -> node
    fs0,       \* the file system as the process found it
    call,      \* the constructor-level call made, with its arguments
    res,       \* how that call ended: returned, raised, or exited
    inst,      \* the instance the call produced, or NoInstance
    dcall,     \* the return_string arguments describe() was called with
    stdout,    \* what has been printed
    ret,       \* the value describe() / get_colormap() returned
    registry   \* the names of cmocean.cm.__dict__

vars == <<fs, fs0, call, res, inst, dcall, stdout, ret, registry>>

(***************************************************************************)
(* Bounds of the model.                                                    *)
(***************************************************************************)
\* argv holds at most MaxArgs tokens
MaxArgs == 2
\* verbose values passed to the constructor range over -1 .. MaxVerbose
MaxVerbose == 4

(***************************************************************************)
(* Python str                                                              *)
(***************************************************************************)
Digits == <<"0", "1", "2", "3", "4", "5", "6", "7", "8", "9">>

IsDigit(c) == \E i \in 1..10 : Digits[i] = c

DigitVal(c) == (CHOOSE i \in 1..10 : Digits[i] = c) - 1

\* s.replace(old, new) for one-character old and new
StrReplace(s, old, new) == [i \in 1..Len(s) |-> IF s[i] = old THEN new ELSE s[i]]

\* s.ljust(width)
Ljust(s, width) ==
    IF Len(s) >= width THEN s ELSE s \o [i \in 1..(width - Len(s)) |-> " "]

\* s.startswith(p)
StartsWith(s, p) == Len(p) <= Len(s) /\ SubSeq(s, 1, Len(p)) = p

\* p in s, for strings
Contains(s, p) ==
    \E i \in 1..(Len(s) + 1) : i + Len(p) - 1 <= Len(s) /\ SubSeq(s, i, i + Len(p) - 1) = p

\* sep.join(parts)
RECURSIVE StrJoin(_, _)
StrJoin(parts, sep) ==
    IF parts = << >> THEN << >>
    ELSE IF Len(parts) = 1 THEN parts[1]
    ELSE parts[1] \o sep \o StrJoin(Tail(parts), sep)

\* s.split(sep) for a one-character sep
RECURSIVE StrSplit(_, _)
StrSplit(s, sep) ==
    IF \A i \in 1..Len(s) : s[i] # sep THEN <<s>>
    ELSE LET k == CHOOSE i \in 1..Len(s) :
                      s[i] = sep /\ \A j \in 1..(i - 1) : s[j] # sep
         IN  <<SubSeq(s, 1, k - 1)>> \o StrSplit(SubSeq(s, k + 1, Len(s)), sep)

\* the number of lines of a text: str.count("\n") + 1
LineCount(s) == Cardinality({i \in 1..Len(s) : s[i] = "\n"}) + 1

\* str(n) for a natural number n
RECURSIVE NatStr(_)
NatStr(n) == IF n < 10 THEN <<Digits[n + 1]>> ELSE NatStr(n \div 10) \o <<Digits[(n % 10) + 1]>>

\* str(n) for an int
IntStr(n) == IF n < 0 THEN <<"-">> \o NatStr(-n) ELSE NatStr(n)

\* the value of a non-empty string of digits
RECURSIVE DigitsVal(_)
DigitsVal(s) ==
    IF Len(s) = 1 THEN DigitVal(s[1])
    ELSE 10 * DigitsVal(SubSeq(s, 1, Len(s) - 1)) + DigitVal(s[Len(s)])

AllDigits(s) == s # << >> /\ \A i \in 1..Len(s) : IsDigit(s[i])

(***************************************************************************)
(* Python values: every value carries its type.                            *)
(***************************************************************************)
IntV(n)  == [t |-> "int", v |-> n]
StrV(s)  == [t |-> "str", v |-> s]
BoolV(b) == [t |-> "bool", v |-> b]
\* a pathlib.Path holds its parts
PathV(p) == [t |-> "Path", v |-> p]
NoneV    == [t |-> "NoneType"]
\* dataclasses.MISSING
MISSING  == [t |-> "MISSING"]

\* a == b in Python: bool is a subclass of int, True == 1 and False == 0
AsInt(a) == IF a.t = "bool" THEN (IF a.v THEN 1 ELSE 0) ELSE a.v

PyEq(a, b) ==
    IF a.t \in {"int", "bool"} /\ b.t \in {"int", "bool"} THEN AsInt(a) = AsInt(b)
    ELSE a = b

\* x in [...], over a list
PyIn(x, list) == \E i \in 1..Len(list) : PyEq(x, list[i])

\* str(path)
PathStr(p) == IF p = << >> THEN <<".">> ELSE StrJoin(p, <<"/">>)

\* Path(s) for a relative s: empty and "." components are dropped
PathOf(s) ==
    LET parts == StrSplit(s, "/")
    IN  PathV(SelectSeq(parts, LAMBDA c : c # << >> /\ c # <<".">>))

\* path.parent
Parent(p) == IF p = << >> THEN p ELSE SubSeq(p, 1, Len(p) - 1)

\* str(value), as an f-string formats it
PyStr(x) ==
    CASE x.t = "int"      -> IntStr(x.v)
      [] x.t = "str"      -> x.v
      [] x.t = "bool"     -> IF x.v THEN <<"T","r","u","e">> ELSE <<"F","a","l","s","e">>
      [] x.t = "Path"     -> PathStr(x.v)
      [] x.t = "NoneType" -> <<"N","o","n","e">>

\* repr(value); the strings of the model hold no quote and no backslash
PyRepr(x) ==
    CASE x.t = "str"  -> <<"'">> \o x.v \o <<"'">>
      [] x.t = "Path" -> <<"P","o","s","i","x","P","a","t","h","(","'">> \o PathStr(x.v) \o <<"'",")">>
      [] OTHER        -> PyStr(x)

\* int(s): an optional sign and digits; ok is FALSE where int() raises ValueError
PyInt(s) ==
    LET neg  == s # << >> /\ s[1] = "-"
        body == IF s # << >> /\ s[1] \in {"-", "+"} THEN Tail(s) ELSE s
    IN  IF AllDigits(body)
        THEN [ok |-> TRUE, v |-> IntV(IF neg THEN -DigitsVal(body) ELSE DigitsVal(body))]
        ELSE [ok |-> FALSE, v |-> NoneV]

(***************************************************************************)
(* The file system.  fs maps each existing path below the working          *)
(* directory to its node; the working directory itself, << >>, is a        *)
(* directory that always exists.                                           *)
(***************************************************************************)
DirNode == [kind |-> "dir"]
FileNode(data) == [kind |-> "file", data |-> data]

p_out == <<<<"o","u","t">>>>
p_run == <<<<"o","u","t">>, <<"r","u","n">>>>
p_log == <<<<"o","u","t">>, <<"r","u","n">>, <<"l","o","g">>>>

\* path.exists()
Exists(f, p) == p = << >> \/ p \in DOMAIN f

\* path.is_dir()
IsDir(f, p) == p = << >> \/ (p \in DOMAIN f /\ f[p].kind = "dir")

\* every existing path lies in an existing directory
WellFormed(f) == \A p \in DOMAIN f : p # << >> /\ IsDir(f, Parent(p))

\* os.mkdir(p): the error it raises, or "" and the new file system
OsMkdir(f, p) ==
    IF Exists(f, p) THEN [err |-> "FileExistsError", fs |-> f]
    ELSE IF ~Exists(f, Parent(p)) THEN
        [err |-> IF \E k \in 1..Len(p) : SubSeq(p, 1, k) \in DOMAIN f
                                         /\ f[SubSeq(p, 1, k)].kind = "file"
                 THEN "NotADirectoryError" ELSE "FileNotFoundError",
         fs |-> f]
    ELSE IF ~IsDir(f, Parent(p)) THEN [err |-> "NotADirectoryError", fs |-> f]
    ELSE [err |-> "", fs |-> (p :> DirNode) @@ f]

\* path.mkdir(parents=True, exist_ok=True)
RECURSIVE Mkdir(_, _)
Mkdir(f, p) ==
    LET r == OsMkdir(f, p)
    IN  IF r.err = "" THEN r
        ELSE IF r.err = "FileNotFoundError" THEN
            IF Parent(p) = p THEN r
            ELSE LET up == Mkdir(f, Parent(p))
                 IN  IF up.err # "" THEN up
                     ELSE LET again == OsMkdir(up.fs, p)
                          IN  IF again.err = "" \/ IsDir(up.fs, p) THEN [again EXCEPT !.err = ""]
                              ELSE again
        ELSE IF IsDir(f, p) THEN [r EXCEPT !.err = ""]
        ELSE r

\* path.touch(): an existing node keeps its content, an absent one becomes an
\* empty file
Touch(f, p) ==
    IF Exists(f, p) THEN [err |-> "", fs |-> f]
    ELSE IF IsDir(f, Parent(p)) THEN [err |-> "", fs |-> (p :> FileNode("")) @@ f]
    ELSE IF Exists(f, Parent(p)) THEN [err |-> "NotADirectoryError", fs |-> f]
    ELSE [err |-> "FileNotFoundError", fs |-> f]

(***************************************************************************)
(* Outcomes of a call.                                                     *)
(***************************************************************************)
NoOutcome == [kind |-> "none", exc |-> "", why |-> "", msg |-> << >>, code |-> 0]
Returned  == [kind |-> "returned", exc |-> "", why |-> "", msg |-> << >>, code |-> 0]
Raised(exc, why, msg) == [kind |-> "raised", exc |-> exc, why |-> why, msg |-> msg, code |-> 0]
\* parser.error() and the help action end the process with SystemExit
Exited(code, why) == [kind |-> "exit", exc |-> "SystemExit", why |-> why, msg |-> << >>, code |-> code]

NoInstance == [cls |-> "", vals |-> << >>]
NoCall == [op |-> "none"]
NoReturn == [t |-> "unset"]

(***************************************************************************)
(* BaseConfig                                                              *)
(***************************************************************************)
n_verbose  == <<"v","e","r","b","o","s","e">>
n_log_file == <<"l","o","g","_","f","i","l","e">>
n_log_mode == <<"l","o","g","_","m","o","d","e">>

\* a declared type: get_origin(tp) is tp.origin, get_args(tp) is tp.args
t_int  == [origin |-> "", args |-> << >>, name |-> "int"]
t_str  == [origin |-> "", args |-> << >>, name |-> "str"]
t_bool == [origin |-> "", args |-> << >>, name |-> "bool"]
t_Path == [origin |-> "", args |-> << >>, name |-> "Path"]
t_NoneType == [origin |-> "", args |-> << >>, name |-> "NoneType"]
\* typing.Optional[T] is typing.Union[T, None]
Optional(T) == [origin |-> "Union", args |-> <<T, t_NoneType>>, name |-> "Optional"]

\* str(tp), as Python 3.11 prints it
TypeStr(tp) ==
    CASE tp.origin = "Union" ->
             <<"t","y","p","i","n","g",".","O","p","t","i","o","n","a","l","[">> \o (IF tp.args[1] = t_int THEN <<"i","n","t">> ELSE <<"b","o","o","l">>) \o <<"]">>
      [] tp = t_int  -> <<"<","c","l","a","s","s"," ","'","i","n","t","'",">">>
      [] tp = t_str  -> <<"<","c","l","a","s","s"," ","'","s","t","r","'",">">>
      [] tp = t_bool -> <<"<","c","l","a","s","s"," ","'","b","o","o","l","'",">">>
      [] tp = t_Path -> <<"<","c","l","a","s","s"," ","'","p","a","t","h","l","i","b",".","P","a","t","h","'",">">>

Field(name, type, default, help) ==
    [name |-> name, type |-> type, default |-> default, help |-> help]

\* the three fields BaseConfig declares
BaseFields == <<
    Field(n_verbose, t_int, IntV(0),
          <<"I","n","c","r","e","a","s","e"," ","v","e","r","b","o","s","i","t","y"," ","l","e","v","e","l"," ","(","0",":"," ","W","A","R","N","I","N","G",","," ","1",":"," ","I","N","F","O",","," ","2",":"," ","I","N","F","O","_","D","E","T","A","I","L","E","D",","," ","3",":"," ","D","E","B","U","G",")">>),
    Field(n_log_file, t_Path, NoneV,
          <<"P","a","t","h"," ","t","o"," ","t","h","e"," ","l","o","g"," ","f","i","l","e"," ","w","h","e","r","e"," ","l","o","g","s"," ","w","i","l","l"," ","b","e"," ","w","r","i","t","t","e","n","."," ","I","f"," ","N","o","n","e",","," ","l","o","g","s"," ","w","i","l","l"," ","n","o","t"," ","b","e"," ","s","a","v","e","d"," ","t","o"," ","a"," ","f","i","l","e",".">>),
    Field(n_log_mode, t_str, StrV(<<"w">>),
          <<"M","o","d","e"," ","f","o","r"," ","o","p","e","n","i","n","g"," ","t","h","e"," ","l","o","g"," ","f","i","l","e"," ","(","'","w","'"," ","f","o","r"," ","w","r","i","t","e",","," ","'","a","'"," ","f","o","r"," ","a","p","p","e","n","d",")">>) >>

\* a range check that lets level 4 through
VerboseOk_UpToFour(self) ==
    PyIn(self[n_verbose], <<IntV(0), IntV(1), IntV(2), IntV(3), IntV(4)>>)

\* self.verbose in [0, 1, 2, 3]
VerboseOk(self) == PyIn(self[n_verbose], <<IntV(0), IntV(1), IntV(2), IntV(3)>>)

\* a substring test, self.log_mode in "wa", in place of the list membership
LogModeOk_Substring(self) ==
    self[n_log_mode].t = "str" /\ Contains(<<"w","a">>, self[n_log_mode].v)

\* self.log_mode in ["w", "a"]
LogModeOk(self) == PyIn(self[n_log_mode], <<StrV(<<"w">>), StrV(<<"a">>)>>)

\* the log_file step without the touch(): only the directories are made
EnsureLogFile_NoTouch(self, f) ==
    IF self[n_log_file] # NoneV /\ ~Exists(f, self[n_log_file].v)
    THEN Mkdir(f, Parent(self[n_log_file].v))
    ELSE [err |-> "", fs |-> f]

\* the log_file step: a configured log file that does not exist gets its
\* parent directories and is touched; err names the OSError raised, if any
EnsureLogFile(self, f) ==
    IF self[n_log_file] # NoneV /\ ~Exists(f, self[n_log_file].v) THEN
        LET made == Mkdir(f, Parent(self[n_log_file].v))
        IN  IF made.err # "" THEN made ELSE Touch(made.fs, self[n_log_file].v)
    ELSE [err |-> "", fs |-> f]

\* __post_init__ with the log_mode check moved before the log_file step
PostInit_ModeBeforeFile(self, f) ==
    IF ~VerboseOk(self) THEN
        [res |-> Raised("ValueError", "verbose",
                        <<"I","n","v","a","l","i","d"," ","v","e","r","b","o","s","i","t","y"," ","l","e","v","e","l",":"," ">> \o PyStr(self[n_verbose])
                            \o <<"."," ","M","u","s","t"," ","b","e"," ","0",","," ","1",","," ","2",","," ","o","r"," ","3",".">>),
         fs |-> f]
    ELSE IF ~LogModeOk(self) THEN
        [res |-> Raised("ValueError", "log_mode",
                        <<"I","n","v","a","l","i","d"," ","l","o","g"," ","m","o","d","e",":"," ">> \o PyStr(self[n_log_mode])
                            \o <<"."," ","M","u","s","t"," ","b","e"," ","'","w","'"," ","o","r"," ","'","a","'",".">>),
         fs |-> f]
    ELSE
        LET made == EnsureLogFile(self, f)
        IN  IF made.err # "" THEN
                [res |-> Raised(made.err, "log_file", << >>),
                 fs |-> made.fs]
            ELSE [res |-> Returned, fs |-> made.fs]

\* BaseConfig.__post_init__ on the instance self (field name -> value) and the
\* file system f: the outcome and the file system it leaves.  The text of an
\* OSError is the platform's and is left empty.
PostInit(self, f) ==
    IF ~VerboseOk(self) THEN
        [res |-> Raised("ValueError", "verbose",
                        <<"I","n","v","a","l","i","d"," ","v","e","r","b","o","s","i","t","y"," ","l","e","v","e","l",":"," ">> \o PyStr(self[n_verbose])
                            \o <<"."," ","M","u","s","t"," ","b","e"," ","0",","," ","1",","," ","2",","," ","o","r"," ","3",".">>),
         fs |-> f]
    ELSE
        LET made == EnsureLogFile(self, f)
        IN  IF made.err # "" THEN
                [res |-> Raised(made.err, "log_file", << >>),
                 fs |-> made.fs]
            ELSE IF ~LogModeOk(self) THEN
                [res |-> Raised("ValueError", "log_mode",
                                <<"I","n","v","a","l","i","d"," ","l","o","g"," ","m","o","d","e",":"," ">> \o PyStr(self[n_log_mode])
                                    \o <<"."," ","M","u","s","t"," ","b","e"," ","'","w","'"," ","o","r"," ","'","a","'",".">>),
                 fs |-> made.fs]
            ELSE [res |-> Returned, fs |-> made.fs]

\* cls(**kwargs): the generated __init__ stores the fields, then runs
\* __post_init__; an instance exists only if that returns
New(cls, kwargs, f) ==
    LET r == PostInit(kwargs, f)
    IN  [res |-> r.res, fs |-> r.fs,
         inst |-> IF r.res.kind = "returned" THEN [cls |-> cls, vals |-> kwargs]
                  ELSE NoInstance]

(***************************************************************************)
(* The dataclasses from_cli is called on: BaseConfig itself and subclasses *)
(* that add fields (keyword-only, so that a field without a default may    *)
(* follow BaseConfig's defaulted ones).                                    *)
(***************************************************************************)
n_x    == <<"x">>
n_y    == <<"y">>
n_flag == <<"f","l","a","g">>
n_opt  == <<"o","p","t">>

Classes ==
    [BaseConfig |-> BaseFields,
     \* a subclass that redeclares log_file with a default path
     Logged     |-> [BaseFields EXCEPT ![2].default = PathV(p_log)],
     XY         |-> BaseFields \o <<Field(n_x, t_int, MISSING, << >>),
                                     Field(n_y, t_int, IntV(5), << >>)>>,
     FlagOff    |-> BaseFields \o <<Field(n_flag, t_bool, BoolV(FALSE), << >>)>>,
     FlagOn     |-> BaseFields \o <<Field(n_flag, t_bool, BoolV(TRUE), << >>)>>,
     FlagBare   |-> BaseFields \o <<Field(n_flag, t_bool, MISSING, << >>)>>,
     OptBare    |-> BaseFields \o <<Field(n_opt, Optional(t_int), MISSING, << >>)>>,
     OptNone    |-> BaseFields \o <<Field(n_opt, Optional(t_int), NoneV, << >>)>>,
     OptSeven   |-> BaseFields \o <<Field(n_opt, Optional(t_int), IntV(7), << >>)>>,
     OptFlag    |-> BaseFields \o <<Field(n_opt, Optional(t_bool), NoneV, << >>)>>]

ClassNames == DOMAIN Classes

\* cls.__name__
ClassNameStr(cls) ==
    CASE cls = "BaseConfig" -> <<"B","a","s","e","C","o","n","f","i","g">>
      [] cls = "Logged"     -> <<"L","o","g","g","e","d">>
      [] cls = "XY"         -> <<"X","Y">>
      [] cls = "FlagOff"    -> <<"F","l","a","g","O","f","f">>
      [] cls = "FlagOn"     -> <<"F","l","a","g","O","n">>
      [] cls = "FlagBare"   -> <<"F","l","a","g","B","a","r","e">>
      [] cls = "OptBare"    -> <<"O","p","t","B","a","r","e">>
      [] cls = "OptNone"    -> <<"O","p","t","N","o","n","e">>
      [] cls = "OptSeven"   -> <<"O","p","t","S","e","v","e","n">>
      [] cls = "OptFlag"    -> <<"O","p","t","F","l","a","g">>

\* fields(cls)
Fields(cls) == Classes[cls]

FieldNames(cls) == {Fields(cls)[i].name : i \in 1..Len(Fields(cls))}

(***************************************************************************)
(* from_cli: one parser argument per field.                                *)
(***************************************************************************)
\* arg_name = f"--{fld.name.replace('_', '-')}"
ArgName(fld) == <<"-","-">> \o StrReplace(fld.name, "_", "-")

\* Optional[X]: origin is Union and type(None) in args
IsOptional(tp) ==
    tp.origin = "Union" /\ \E i \in 1..Len(tp.args) : tp.args[i] = t_NoneType

\* next(a for a in args if a is not type(None))
Unwrap(tp) ==
    tp.args[CHOOSE i \in 1..Len(tp.args) :
                /\ tp.args[i] # t_NoneType
                /\ \A j \in 1..(i - 1) : tp.args[j] = t_NoneType]

\* required, as the loop body leaves it
Required(fld) == IF IsOptional(fld.type) THEN FALSE ELSE fld.default = MISSING

\* default = None if required else fld.default, computed before the Optional
\* branch clears required
DefaultOf(fld) == IF fld.default = MISSING THEN NoneV ELSE fld.default

\* arg_type after the Optional branch
ArgType(fld) == IF IsOptional(fld.type) THEN Unwrap(fld.type) ELSE fld.type

\* action="store_true" whatever the default
BoolAction_AlwaysStoreTrue(fld) == "store_true"

\* action="store_true" if default is not True else "store_false"
BoolAction(fld) == IF DefaultOf(fld) # BoolV(TRUE) THEN "store_true" ELSE "store_false"

\* argparse derives dest from the option string: the prefix characters are
\* stripped and "-" becomes "_"
RECURSIVE LStripDash(_)
LStripDash(s) == IF s # << >> /\ s[1] = "-" THEN LStripDash(Tail(s)) ELSE s

Dest(option) == StrReplace(LStripDash(option), "-", "_")

\* parser.add_argument(...) for one field: the action argparse registers.
\* A bool field passes neither required nor default: the store_true action
\* defaults to False and store_false to True.
AddArgument(fld) ==
    IF ArgType(fld) = t_bool THEN
        [option |-> ArgName(fld), dest |-> Dest(ArgName(fld)), action |-> BoolAction(fld),
         type |-> t_bool, required |-> FALSE,
         default |-> BoolV(BoolAction(fld) = "store_false")]
    ELSE
        [option |-> ArgName(fld), dest |-> Dest(ArgName(fld)), action |-> "store",
         type |-> ArgType(fld), required |-> Required(fld),
         default |-> IF Required(fld) THEN NoneV ELSE DefaultOf(fld)]

\* the -h/--help action every ArgumentParser starts with
HelpAction ==
    [option |-> <<"-","-","h","e","l","p">>, dest |-> <<"h","e","l","p">>, action |-> "help",
     type |-> t_NoneType, required |-> FALSE, default |-> NoneV]

\* the parser after the loop over fields(cls)
Parser(cls) == <<HelpAction>> \o [i \in 1..Len(Fields(cls)) |-> AddArgument(Fields(cls)[i])]

(***************************************************************************)
(* parser.parse_args(), as argparse of Python 3.11 does it.                *)
(***************************************************************************)
\* "-1": a token that looks like a negative number is an argument
LooksNegative(tok) == Len(tok) >= 2 /\ tok[1] = "-" /\ AllDigits(Tail(tok))

\* the actions an option token selects: the one whose option string it is,
\* else those whose option string it abbreviates
Selected(parser, tok) ==
    LET exact  == {i \in 1..Len(parser) : parser[i].option = tok}
        abbrev == {i \in 1..Len(parser) : StartsWith(parser[i].option, tok)}
    IN  IF exact # {} THEN exact
        ELSE IF StartsWith(tok, <<"-","-">>) THEN abbrev
        ELSE {}

\* "A" for an argument, "O" for an option, "?" for an ambiguous abbreviation
TokenClass(parser, tok) ==
    IF tok = << >> \/ tok[1] # "-" \/ Len(tok) = 1 THEN "A"
    ELSE IF Cardinality(Selected(parser, tok)) = 1 THEN "O"
    ELSE IF Cardinality(Selected(parser, tok)) > 1 THEN "?"
    ELSE IF LooksNegative(tok) THEN "A"
    ELSE "O"

\* type(string): the converted value, ok FALSE where the conversion raises
Convert(tp, s) ==
    CASE tp = t_int  -> PyInt(s)
      [] tp = t_str  -> [ok |-> TRUE, v |-> StrV(s)]
      [] tp = t_Path -> [ok |-> TRUE, v |-> PathOf(s)]
      [] OTHER       -> [ok |-> FALSE, v |-> NoneV]

ParseOk(ns) == [kind |-> "ok", why |-> "", ns |-> ns]
ParseError(why) == [kind |-> "error", why |-> why, ns |-> << >>]
ParseHelp == [kind |-> "help", why |-> "help", ns |-> << >>]

\* the namespace before any token is consumed: every action's default
InitialNamespace(parser) ==
    [d \in {parser[i].dest : i \in 2..Len(parser)} |->
        parser[CHOOSE i \in 2..Len(parser) : parser[i].dest = d].default]

\* after the last token: an unseen required action is an error, an unseen
\* action's string default is converted, left-over tokens are an error
Finish(parser, ns, seen, extras) ==
    LET unseen  == {i \in 2..Len(parser) : i \notin seen}
        strdef  == {i \in unseen : ~parser[i].required /\ parser[i].default.t = "str"
                                   /\ parser[i].action = "store"}
        conv(i) == Convert(parser[i].type, parser[i].default.v)
    IN  IF \E i \in strdef : ~conv(i).ok THEN ParseError("invalid value")
        ELSE IF \E i \in unseen : parser[i].required THEN ParseError("required")
        ELSE IF extras THEN ParseError("unrecognized")
        ELSE ParseOk([d \in DOMAIN ns |->
                        IF \E i \in strdef : parser[i].dest = d
                        THEN conv(CHOOSE i \in strdef : parser[i].dest = d).v
                        ELSE ns[d]])

\* the loop over the tokens from position i on
RECURSIVE Consume(_, _, _, _, _, _)
Consume(parser, argv, i, ns, seen, extras) ==
    IF i > Len(argv) THEN Finish(parser, ns, seen, extras)
    ELSE IF TokenClass(parser, argv[i]) = "A" \/ Selected(parser, argv[i]) = {} THEN
        \* no positional is declared, no option is known: left over
        Consume(parser, argv, i + 1, ns, seen, TRUE)
    ELSE
        LET k == CHOOSE j \in Selected(parser, argv[i]) : TRUE
            a == parser[k]
        IN  CASE a.action = "help" -> ParseHelp
              [] a.action = "store_true" ->
                     Consume(parser, argv, i + 1, [ns EXCEPT ![a.dest] = BoolV(TRUE)],
                             seen \cup {k}, extras)
              [] a.action = "store_false" ->
                     Consume(parser, argv, i + 1, [ns EXCEPT ![a.dest] = BoolV(FALSE)],
                             seen \cup {k}, extras)
              [] a.action = "store" ->
                     IF i + 1 > Len(argv) \/ TokenClass(parser, argv[i + 1]) # "A"
                     THEN ParseError("expected one argument")
                     ELSE LET c == Convert(a.type, argv[i + 1])
                          IN  IF ~c.ok THEN ParseError("invalid value")
                              ELSE Consume(parser, argv, i + 2,
                                           [ns EXCEPT ![a.dest] = c.v],
                                           seen \cup {k}, extras)

\* parse_args(argv): the tokens are classified first, and an ambiguous
\* abbreviation is an error before any action runs
ParseArgs(parser, argv) ==
    IF \E i \in 1..Len(argv) : TokenClass(parser, argv[i]) = "?"
    THEN ParseError("ambiguous")
    ELSE Consume(parser, argv, 1, InitialNamespace(parser), {}, FALSE)

\* the option tokens and the value tokens a command line is made of
Values == {<<"3">>, <<"7">>, <<"a">>, <<"o","u","t","/","r","u","n","/","l","o","g">>}

Tokens(cls) ==
    {ArgName(Fields(cls)[i]) : i \in 1..Len(Fields(cls))}
        \cup {<<"-","-","h","e","l","p">>, <<"-","-","n","o","p","e">>, <<"-","-","v","e","r","b">>, <<"-","-","l","o","g">>} \cup Values

Argvs(cls) == UNION {[1..n -> Tokens(cls)] : n \in 0..MaxArgs}

\* parsing does not read the file system: what parse_args() makes of each
\* command line of each class, computed once
Parsed == [cls \in ClassNames |-> [argv \in Argvs(cls) |-> ParseArgs(Parser(cls), argv)]]

(***************************************************************************)
(* The inputs of a direct construction.                                    *)
(***************************************************************************)
VerboseInputs ==
    {IntV(n) : n \in -1..MaxVerbose} \cup {BoolV(TRUE), NoneV, StrV(<<"1">>)}

LogFileInputs == {NoneV, PathV(p_log), PathV(p_run)}

LogModeInputs == {StrV(<<"w">>), StrV(<<"a">>), StrV(<<"z">>), StrV(<<"w","a">>), StrV(<< >>)}

\* every file system over out, out/run and out/run/log the process can find
InitFs ==
    LET nodes == {DirNode, FileNode(""), FileNode("x")}
        all   == UNION {[D -> nodes] : D \in SUBSET {p_out, p_run, p_log}}
    IN  {f \in all : WellFormed(f)}

DefaultRegistry == {<<"t","a","r","n">>, <<"t","h","e","r","m","a","l">>}

Init ==
    /\ fs \in InitFs
    /\ fs0 = fs
    /\ call = NoCall
    /\ res = NoOutcome
    /\ inst = NoInstance
    /\ dcall = {}
    /\ stdout = << >>
    /\ ret = NoReturn
    /\ registry = DefaultRegistry

\* BaseConfig(verbose=v, log_file=lf, log_mode=m)
Construct(v, lf, m) ==
    /\ call = NoCall
    /\ call' = [op |-> "construct",
                 kwargs |-> (n_verbose :> v) @@ (n_log_file :> lf) @@ (n_log_mode :> m)]
    /\ \E r \in {New("BaseConfig", call'.kwargs, fs)} :
           /\ res' = r.res
           /\ fs' = r.fs
           /\ inst' = r.inst
    /\ UNCHANGED <<fs0, dcall, stdout, ret, registry>>

\* from_cli that fills the instance from the parsed values without running
\* __post_init__
FromCli_Unvalidated(cls, argv) ==
    /\ call = NoCall
    /\ call' = [op |-> "from_cli", cls |-> cls, argv |-> argv]
    /\ \E p \in {Parsed[cls][argv]} :
           IF p.kind = "error" THEN res' = Exited(2, p.why) /\ inst' = NoInstance
           ELSE IF p.kind = "help" THEN res' = Exited(0, p.why) /\ inst' = NoInstance
           ELSE res' = Returned /\ inst' = [cls |-> cls, vals |-> p.ns]
    /\ UNCHANGED <<fs, fs0, dcall, stdout, ret, registry>>

\* cls.from_cli() with sys.argv[1:] = argv: parse, then cls(**vars(args))
FromCli(cls, argv) ==
    /\ call = NoCall
    /\ call' = [op |-> "from_cli", cls |-> cls, argv |-> argv]
    /\ \E p \in {Parsed[cls][argv]} :
          IF p.kind = "error" THEN
              /\ res' = Exited(2, p.why)
              /\ UNCHANGED <<fs, inst>>
          ELSE IF p.kind = "help" THEN
              /\ res' = Exited(0, p.why)
              /\ UNCHANGED <<fs, inst>>
          ELSE IF DOMAIN p.ns # FieldNames(cls) THEN
              /\ res' = Raised("TypeError", "kwargs", << >>)
              /\ UNCHANGED <<fs, inst>>
          ELSE
              \E r \in {New(cls, p.ns, fs)} :
                  /\ res' = r.res
                  /\ fs' = r.fs
                  /\ inst' = r.inst
    /\ UNCHANGED <<fs0, dcall, stdout, ret, registry>>

\* the field lines without the header
DescribeLines_NoHeader(self) ==
    [i \in 1..Len(Fields(self.cls)) |->
        LET inputfield == Fields(self.cls)[i]
        IN  <<" "," ">> \o Ljust(inputfield.name, 25) \o <<":"," ">>
                \o Ljust(TypeStr(inputfield.type), 25) \o <<" ","="," ">>
                \o PyRepr(self.vals[inputfield.name]) \o <<" "," ">> \o inputfield.help]

\* the lines describe() collects: a header, then one line per field of
\* fields(self) in declaration order
DescribeLines(self) ==
    <<<<"I","n","s","t","a","n","c","e"," ","o","f"," ","d","a","t","a","c","l","a","s","s"," ","'">> \o ClassNameStr(self.cls) \o <<"'"," ","h","a","s"," ","t","h","e"," ","f","o","l","l","o","w","i","n","g"," ","v","a","l","u","e","s",":">>>>
    \o [i \in 1..Len(Fields(self.cls)) |->
          LET inputfield == Fields(self.cls)[i]
          IN  <<" "," ">> \o Ljust(inputfield.name, 25) \o <<":"," ">>
                  \o Ljust(TypeStr(inputfield.type), 25) \o <<" ","="," ">>
                  \o PyRepr(self.vals[inputfield.name]) \o <<" "," ">> \o inputfield.help]

\* "\n".join(lines)
DescribeText(self) == StrJoin(DescribeLines(self), <<"\n">>)

\* self.describe(return_string): the text is returned, or printed and None
\* is returned; print() ends the text with a newline.  Each of the two
\* forms is called at most once.
Describe(return_string) ==
    /\ inst # NoInstance
    /\ return_string \notin dcall
    /\ dcall' = dcall \cup {return_string}
    /\ IF return_string
       THEN ret' = StrV(DescribeText(inst)) /\ UNCHANGED stdout
       ELSE ret' = NoneV /\ stdout' = stdout \o DescribeText(inst) \o <<"\n">>
    /\ UNCHANGED <<fs, fs0, call, res, inst, registry>>

\* one constructor-level call is made per process, then describe() may be
\* called on the instance it produced
Next ==
    \/ /\ call = NoCall
       /\ \E v \in VerboseInputs, lf \in LogFileInputs, m \in LogModeInputs :
              Construct(v, lf, m)
    \/ /\ call = NoCall
       /\ \E cls \in ClassNames : \E argv \in Argvs(cls) : FromCli(cls, argv)
    \/ /\ inst # NoInstance
       /\ \E return_string \in BOOLEAN : Describe(return_string)

Spec == Init /\ [][Next]_vars

(***************************************************************************)
(* plot_style.get_colormap                                                 *)
(***************************************************************************)
c_heatmap == <<"h","e","a","t","m","a","p">>
c_tarn    == <<"t","a","r","n">>

\* the names a lookup is tried with, and the names cmocean.cm.__dict__ may hold
CmapNames == {c_heatmap, c_tarn, <<"t","h","e","r","m","a","l">>, <<"m","a","t","t","e","r">>, <<"_","_","n","a","m","e","_","_">>, <<"v","i","r","i","d","i","s">>, << >>}

\* the keys of the mapping get_colormap builds
MappingKeys == {c_heatmap}

\* a colormap value: where it was taken from, and under which name
Cmap(from, name) == [t |-> "cmap", from |-> from, name |-> name]

\* get_colormap that looks the name up in cmocean.cm.__dict__ first
GetColormapResult_RegistryFirst(variable_name, reg) ==
    IF c_tarn \notin reg THEN
        [res |-> Raised("AttributeError", "tarn", c_tarn), ret |-> NoReturn]
    ELSE IF variable_name \in reg THEN
        [res |-> Returned, ret |-> Cmap("registry", variable_name)]
    ELSE IF variable_name \in MappingKeys THEN
        [res |-> Returned, ret |-> Cmap("mapping", variable_name)]
    ELSE
        [res |-> Raised("ValueError", "colormap",
                        <<"N","o"," ","c","o","l","o","r","m","a","p"," ","d","e","f","i","n","e","d"," ","f","o","r"," ","v","a","r","i","a","b","l","e"," ","'">> \o variable_name
                            \o <<"'","."," ","P","l","e","a","s","e"," ","d","e","f","i","n","e"," ","a"," ","m","a","p","p","i","n","g"," ","i","n"," ","m","a","p","p","i","n","g",")",".">>),
         ret |-> NoReturn]

\* get_colormap(variable_name) against the registry reg: the outcome and
\* the value returned.  Building the mapping reads cmocean.cm.tarn.
GetColormapResult(variable_name, reg) ==
    IF c_tarn \notin reg THEN
        [res |-> Raised("AttributeError", "tarn", c_tarn), ret |-> NoReturn]
    ELSE IF variable_name \in MappingKeys THEN
        [res |-> Returned, ret |-> Cmap("mapping", variable_name)]
    ELSE IF variable_name \in reg THEN
        [res |-> Returned, ret |-> Cmap("registry", variable_name)]
    ELSE
        [res |-> Raised("ValueError", "colormap",
                        <<"N","o"," ","c","o","l","o","r","m","a","p"," ","d","e","f","i","n","e","d"," ","f","o","r"," ","v","a","r","i","a","b","l","e"," ","'">> \o variable_name
                            \o <<"'","."," ","P","l","e","a","s","e"," ","d","e","f","i","n","e"," ","a"," ","m","a","p","p","i","n","g"," ","i","n"," ","m","a","p","p","i","n","g",")",".">>),
         ret |-> NoReturn]

GetColormap(variable_name) ==
    /\ call = NoCall
    /\ call' = [op |-> "get_colormap", name |-> variable_name]
    /\ res' = GetColormapResult(variable_name, registry).res
    /\ ret' = GetColormapResult(variable_name, registry).ret
    /\ UNCHANGED <<fs, fs0, inst, dcall, stdout, registry>>

\* cmocean.cm always defines tarn; what else its __dict__ holds is the
\* library's business
InitStyle ==
    /\ registry \in {r \cup {c_tarn} : r \in SUBSET (CmapNames \ {c_tarn})}
    /\ fs = << >>
    /\ fs0 = << >>
    /\ call = NoCall
    /\ res = NoOutcome
    /\ inst = NoInstance
    /\ dcall = {}
    /\ stdout = << >>
    /\ ret = NoReturn

NextStyle == \E variable_name \in CmapNames : GetColormap(variable_name)

SpecStyle == InitStyle /\ [][NextStyle]_vars

(***************************************************************************)
(* Properties of BaseConfig.                                               *)
(***************************************************************************)
\* the constructor ran: called directly, or by from_cli after parsing
Constructed ==
    \/ call.op = "construct"
    \/ call.op = "from_cli" /\ Parsed[call.cls][call.argv].kind = "ok"

\* the keyword arguments the constructor ran with
Kw == IF call.op = "construct" THEN call.kwargs ELSE Parsed[call.cls][call.argv].ns

\* one of 0, 1, 2, 3 (a bool is the int 0 or 1)
IsLevel(v) == (v.t = "int" /\ v.v \in 0..3) \/ v.t = "bool"

\* one of "w", "a"
IsMode(m) == m = StrV(<<"w">>) \/ m = StrV(<<"a">>)

\* a regular file stands where a parent directory of p would have to be
Blocked(f, p) ==
    \E k \in 1..(Len(p) - 1) :
        SubSeq(p, 1, k) \in DOMAIN f /\ f[SubSeq(p, 1, k)].kind = "file"

\* the configured log file cannot be created in the file system found
LogFileBlocked == Kw[n_log_file] # NoneV /\ Blocked(fs0, Kw[n_log_file].v)

OSErrors == {"FileExistsError", "NotADirectoryError"}

\* C1: a verbose outside 0..3 makes construction raise the ValueError about
\* the verbosity level and leaves no instance; for a verbose within 0..3 the
\* verbosity check raises nothing.
C1_VerboseRange ==
    Constructed =>
        IF IsLevel(Kw[n_verbose]) THEN res.why # "verbose"
        ELSE /\ res.kind = "raised"
             /\ res.exc = "ValueError"
             /\ res.why = "verbose"
             /\ Contains(res.msg, <<"v","e","r","b","o","s","i","t","y"," ","l","e","v","e","l",":"," ">> \o PyStr(Kw[n_verbose]))
             /\ inst = NoInstance

\* BaseConfig(verbose=4) raised the verbosity error
C1_Witness ==
    /\ call.op = "construct"
    /\ call.kwargs[n_verbose] = IntV(4)
    /\ res.kind = "raised" /\ res.why = "verbose"

\* C2 as stated: a log_mode outside {"w", "a"} makes construction raise the
\* invalid-value error; a log_mode within it, with a valid verbose, makes
\* construction succeed with that log_mode.
C2_AsStated ==
    Constructed =>
        /\ ~IsMode(Kw[n_log_mode]) => res.kind = "raised" /\ res.exc = "ValueError"
        /\ (IsMode(Kw[n_log_mode]) /\ IsLevel(Kw[n_verbose])) =>
               res.kind = "returned" /\ inst.vals[n_log_mode] = Kw[n_log_mode]

\* C2: a log_mode outside {"w", "a"} makes construction raise and leave no
\* instance: the ValueError about the log mode when verbose is valid and the
\* log file can be created, the verbosity ValueError when verbose is
\* invalid.  A log_mode within {"w", "a"}, with a valid verbose and a log
\* file that can be created, makes construction succeed with that log_mode.
\* With a valid verbose and a log file that cannot be created, construction
\* raises the OSError of the creation whatever the log_mode.
C2_LogModeChecked ==
    Constructed =>
        /\ ~IsMode(Kw[n_log_mode]) =>
               /\ res.kind = "raised" /\ inst = NoInstance
               /\ ~IsLevel(Kw[n_verbose]) => res.exc = "ValueError"
               /\ (IsLevel(Kw[n_verbose]) /\ ~LogFileBlocked) =>
                      /\ res.exc = "ValueError" /\ res.why = "log_mode"
                      /\ Contains(res.msg, <<"l","o","g"," ","m","o","d","e",":"," ">> \o PyStr(Kw[n_log_mode]))
        /\ (IsMode(Kw[n_log_mode]) /\ IsLevel(Kw[n_verbose]) /\ ~LogFileBlocked) =>
               res.kind = "returned" /\ inst.vals[n_log_mode] = Kw[n_log_mode]
        /\ (IsLevel(Kw[n_verbose]) /\ LogFileBlocked) =>
               res.kind = "raised" /\ res.exc \in OSErrors /\ inst = NoInstance

\* BaseConfig(log_mode="z") raised the log-mode error
C2_Witness ==
    /\ call.op = "construct"
    /\ call.kwargs[n_log_mode] = StrV(<<"z">>)
    /\ res.kind = "raised" /\ res.why = "log_mode"

\* C6: an instance constructed with a log_file has that file and its parent
\* directory on disk; a file that was absent is new and empty, everything
\* that existed is as it was; with log_file None the file system is
\* untouched.
C6_LogFileEnsured ==
    inst # NoInstance =>
        IF inst.vals[n_log_file] = NoneV THEN fs = fs0
        ELSE /\ Exists(fs, inst.vals[n_log_file].v)
             /\ IsDir(fs, Parent(inst.vals[n_log_file].v))
             /\ ~Exists(fs0, inst.vals[n_log_file].v) =>
                    fs[inst.vals[n_log_file].v] = FileNode("")
             /\ \A p \in DOMAIN fs0 : p \in DOMAIN fs /\ fs[p] = fs0[p]

\* out/run/log was created, with out and out/run, in an empty directory
C6_Witness ==
    /\ inst # NoInstance
    /\ inst.vals[n_log_file] = PathV(p_log)
    /\ DOMAIN fs0 = {}
    /\ fs = (p_out :> DirNode) @@ (p_run :> DirNode) @@ (p_log :> FileNode(""))

Given(argv, fld) ==
    \E k \in 1..Len(argv) :
        StartsWith(argv[k], <<"-","-">>) /\ StartsWith(<<"-","-">> \o StrReplace(fld.name, "_", "-"), argv[k])

\* the command line asks for the help text
HelpGiven(argv) ==
    \E k \in 1..Len(argv) : StartsWith(argv[k], <<"-","-">>) /\ StartsWith(<<"-","-","h","e","l","p">>, argv[k])

\* the token after the last occurrence of the field's flag
Supplied(argv, fld) ==
    argv[1 + CHOOSE k \in 1..Len(argv) :
                 /\ StartsWith(argv[k], <<"-","-">>)
                 /\ StartsWith(<<"-","-">> \o StrReplace(fld.name, "_", "-"), argv[k])
                 /\ \A j \in (k + 1)..Len(argv) :
                        ~StartsWith(<<"-","-">> \o StrReplace(fld.name, "_", "-"), argv[j])]

\* the declared type is Optional[T]; T
OptionalTyped(fld) == fld.type.name = "Optional"
Inner(fld) == fld.type.args[1]

\* required as stated: no default and not Optional
RequiredAsStated(fld) == fld.default = MISSING /\ ~OptionalTyped(fld)

\* what a field that is not given gets when it is not a toggle
Declared(fld) == IF fld.default = MISSING THEN NoneV ELSE fld.default

\* C3 as stated, for command lines that do not ask for help: a field is
\* required exactly when it has no default and is not Optional; a required
\* field that is not given ends parsing with the usage error and no
\* instance; a field that is not required and not given takes its declared
\* default.
C3_AsStated ==
    (call.op = "from_cli" /\ ~HelpGiven(call.argv)) =>
        /\ (\E i \in 1..Len(Fields(call.cls)) :
                RequiredAsStated(Fields(call.cls)[i]) /\ ~Given(call.argv, Fields(call.cls)[i]))
               => res.kind = "exit" /\ res.code = 2 /\ inst = NoInstance
        /\ inst # NoInstance =>
               \A i \in 1..Len(Fields(call.cls)) :
                   LET fld == Fields(call.cls)[i]
                   IN  (fld.default # MISSING /\ ~Given(call.argv, fld))
                           => inst.vals[fld.name] = fld.default

\* C4: a bool field with default d is a flag that takes no value: an
\* instance from a command line with the flag holds not d, one from a
\* command line without it holds d, and a value after the flag is not
\* accepted.
C4_BoolToggle ==
    call.op = "from_cli" =>
        \A i \in 1..Len(Fields(call.cls)) :
            LET fld == Fields(call.cls)[i]
            IN  (fld.type = t_bool /\ fld.default \in {BoolV(TRUE), BoolV(FALSE)}) =>
                    /\ inst # NoInstance =>
                           inst.vals[fld.name] =
                               (IF Given(call.argv, fld) THEN BoolV(~fld.default.v)
                                ELSE fld.default)
                    /\ (\E k \in 1..(Len(call.argv) - 1) :
                            /\ Given(<<call.argv[k]>>, fld)
                            /\ call.argv[k + 1] \in Values)
                           => inst = NoInstance /\ res.kind = "exit"

\* FlagOn.from_cli() with "--flag" returned flag = False
C4_Witness ==
    /\ call.op = "from_cli" /\ call.cls = "FlagOn"
    /\ call.argv = <<<<"-","-","f","l","a","g">>>>
    /\ inst # NoInstance
    /\ inst.vals[n_flag] = BoolV(FALSE)

\* C5 as stated: an Optional[T] field is never required; not given, it is
\* None when it declares no default and its declared default otherwise;
\* given, it holds the supplied value converted with T.
C5_AsStated ==
    call.op = "from_cli" =>
        \A i \in 1..Len(Fields(call.cls)) :
            LET fld == Fields(call.cls)[i]
            IN  OptionalTyped(fld) =>
                    /\ (res.kind = "exit" /\ res.why = "required") =>
                           \E j \in 1..Len(Fields(call.cls)) :
                               /\ RequiredAsStated(Fields(call.cls)[j])
                               /\ ~Given(call.argv, Fields(call.cls)[j])
                    /\ (inst # NoInstance /\ ~Given(call.argv, fld)) =>
                           inst.vals[fld.name] = Declared(fld)
                    /\ (inst # NoInstance /\ Given(call.argv, fld) /\ Inner(fld) = t_int) =>
                           /\ inst.vals[fld.name].t = "int"
                           /\ IntStr(inst.vals[fld.name].v) = Supplied(call.argv, fld)

\* C9 as stated: a parsing failure leaves no instance and no log file; a
\* returned instance has passed validation; a command line that parses to a
\* verbose or log_mode violating its constraint makes from_cli fail with
\* the validation error.
C9_AsStated ==
    call.op = "from_cli" =>
        /\ res.kind = "exit" => inst = NoInstance /\ fs = fs0
        /\ inst # NoInstance =>
               IsLevel(inst.vals[n_verbose]) /\ IsMode(inst.vals[n_log_mode])
        /\ (Constructed /\ (~IsLevel(Kw[n_verbose]) \/ ~IsMode(Kw[n_log_mode]))) =>
               /\ res.kind = "raised" /\ res.exc = "ValueError"
               /\ res.why \in {"verbose", "log_mode"}

\* C9: a parsing failure leaves no instance and no log file; a returned
\* instance has passed validation; a command line that parses to a verbose
\* or log_mode violating its constraint makes from_cli fail without an
\* instance: with the validation error, unless verbose is valid and the log
\* file cannot be created, in which case with the OSError of the creation.
C9_ParseThenValidate ==
    call.op = "from_cli" =>
        /\ res.kind = "exit" => inst = NoInstance /\ fs = fs0
        /\ inst # NoInstance =>
               IsLevel(inst.vals[n_verbose]) /\ IsMode(inst.vals[n_log_mode])
        /\ (Constructed /\ (~IsLevel(Kw[n_verbose]) \/ ~IsMode(Kw[n_log_mode]))) =>
               /\ res.kind = "raised" /\ inst = NoInstance
               /\ IF IsLevel(Kw[n_verbose]) /\ LogFileBlocked
                  THEN res.exc \in OSErrors /\ res.why = "log_file"
                  ELSE res.exc = "ValueError" /\ res.why \in {"verbose", "log_mode"}

\* Logged.from_cli() with "--log-mode 3" parsed, then raised the log-mode
\* error
C9_Witness ==
    /\ call.op = "from_cli" /\ call.cls = "Logged"
    /\ call.argv = <<<<"-","-","l","o","g","-","m","o","d","e">>, <<"3">>>>
    /\ res.kind = "raised" /\ res.why = "log_mode"
    /\ inst = NoInstance

(***************************************************************************)
(* Properties of describe.                                                 *)
(***************************************************************************)
\* the text is a header line and one line per field, in declaration order,
\* each holding the field's name and the repr of its value
Described(self, text) ==
    /\ LineCount(text) = Len(Fields(self.cls)) + 1
    /\ Len(StrSplit(text, "\n")) = Len(Fields(self.cls)) + 1
    /\ \A i \in 1..Len(Fields(self.cls)) :
           /\ Contains(StrSplit(text, "\n")[i + 1], Fields(self.cls)[i].name)
           /\ Contains(StrSplit(text, "\n")[i + 1],
                       <<" ","="," ">> \o PyRepr(self.vals[Fields(self.cls)[i].name]))

\* C7: describe produces a header line followed by one line per field in
\* declaration order, each with the field's name and current value, number
\* of fields + 1 lines in all; it leaves the instance as constructed; the
\* printed text is the returned text.
C7_Describe ==
    (inst # NoInstance /\ dcall # {}) =>
        /\ inst = [cls |-> IF call.op = "construct" THEN "BaseConfig" ELSE call.cls,
                   vals |-> Kw]
        /\ TRUE \in dcall => ret.t \in {"str", "NoneType"}
        /\ ret.t = "str" => Described(inst, ret.v)
        /\ FALSE \in dcall =>
               /\ stdout # << >> /\ stdout[Len(stdout)] = "\n"
               /\ Described(inst, SubSeq(stdout, 1, Len(stdout) - 1))
        /\ (FALSE \in dcall /\ ret.t = "str") => stdout = ret.v \o <<"\n">>
        /\ dcall = {FALSE} => ret = NoneV

\* an XY instance was printed, then returned as a string
C7_Witness ==
    /\ inst # NoInstance /\ inst.cls = "XY"
    /\ dcall = {TRUE, FALSE}
    /\ ret.t = "str"
    /\ LineCount(ret.v) = 6

(***************************************************************************)
(* Properties of get_colormap.                                             *)
(***************************************************************************)
\* C8: get_colormap raises the error naming the key exactly when the key is
\* neither in the predefined mapping nor registered in cmocean; a key in
\* both gets the predefined mapping's colormap.
C8_GetColormap ==
    call.op = "get_colormap" =>
        /\ (call.name \notin MappingKeys /\ call.name \notin registry) =>
               /\ res.kind = "raised" /\ res.exc = "ValueError"
               /\ Contains(res.msg, <<"'">> \o call.name \o <<"'">>)
               /\ ret = NoReturn
        /\ (call.name \in MappingKeys \/ call.name \in registry) =>
               res.kind = "returned" /\ ret.t = "cmap" /\ ret.name = call.name
        /\ (call.name \in MappingKeys /\ call.name \in registry) => ret.from = "mapping"
        /\ (call.name \notin MappingKeys /\ call.name \in registry) => ret.from = "registry"

\* cmocean registers a colormap named heatmap; the mapping's one is returned
C8_Witness ==
    /\ call.op = "get_colormap"
    /\ call.name = c_heatmap
    /\ c_heatmap \in registry
    /\ ret = Cmap("mapping", c_heatmap)
====
